---- MODULE Spec2Model ----
(***************************************************************************)
(* A model of agent.py: the Streamlit script main() and what it calls      *)
(* (setup_environment, initialize_agents behind st.cache_resource,         *)
(* TravelAgent.run).  One "history" is one server process: a sequence of   *)
(* script runs that share os.environ and the resource cache.  Every        *)
(* variable is a function of the history, and every action is taken by a   *)
(* set S of histories that make the same step on the same inputs, so that  *)
(* two histories can be compared: in Spec only history 1 runs, in SpecPair *)
(* both do, alone or side by side.                                         *)
(*                                                                         *)
(* Strings returned by the agents are small integers (distinct text        *)
(* blocks); the locals bound so far are a sequence, in the order the code  *)
(* binds them.                                                             *)
(* Dates are day numbers counted from date.today().                        *)
(* Left out: the page layout, the CSS and the fresh "Session ID | Time"    *)
(* header line that TravelAgent.run puts before every prompt.              *)
(***************************************************************************)
EXTENDS Integers, Sequences, FiniteSets, TLC

VARIABLES
    pc,          \* where main() is in the current script run ("idle": between runs)
    environ,     \* os.environ: the keys that have been written (survives runs)
    cache,       \* st.cache_resource entry of initialize_agents: {} or {value}
    buttonShown, \* the last completed run left the submit button on the page
    submitted,   \* history variable: an earlier run of this history called an agent
    secretsRead, \* st.secrets as setup_environment saw it in this run
    setupRet,    \* what setup_environment returned in this run
    initCalled,  \* initialize_agents was called in this run
    form,        \* the widget values read in this run (widget -> value)
    pressed,     \* the value st.button returned in this run
    step,        \* the step (1..5) of the try block main() is at
    inflight,    \* agents whose run() has been called and has not returned
    calls,       \* the run() calls of this script run, in order
    results,     \* the locals bound so far, in the order of ResultVars
    screen,      \* the messages this run has put on the page, in order
    progress,    \* the progress bar: "absent", "p0".."p100", or "emptied"
    status,      \* the text of the status_text placeholder ("": none)
    download     \* the data of the download button (<<>>: no button)

vars == <<pc, environ, cache, buttonShown, submitted, secretsRead, setupRet, initCalled,
          form, pressed, step, inflight, calls, results, screen, progress,
          status, download>>

persist == <<environ, cache, buttonShown, submitted>>
setupv  == <<secretsRead, setupRet, initCalled>>
formv   == <<form, pressed>>
tryv    == <<step, inflight, calls, results>>
page    == <<screen, progress, status, download>>

(***************************************************************************)
(* Bounds and input sets                                                   *)
(***************************************************************************)
\* the histories that are compared, and the one that runs alone in Spec
Hist == {1, 2}
Solo == {1}

\* agents return one of the text blocks 1..MaxText
MaxText == 2
Texts == 1..MaxText

\* the date widgets offer days up to MaxAhead days from today
MaxAhead == 6

\* what a text_input can hold: the empty string or some text
Strings == {"", "x"}

(***************************************************************************)
(* setup_environment                                                       *)
(***************************************************************************)
Keys == {"GOOGLE_API_KEY", "COMPOSIO_API_KEY", "TAVILY_API_KEY"}

\* a secret is absent, a string, or a TOML value that is no string
\* (os.environ[...] = value raises TypeError for it)
SecretKinds == {"absent", "str", "other"}
SecretFiles == [Keys -> SecretKinds]
NoSecrets == [k \in Keys |-> "absent"]

\* one "if key in st.secrets: os.environ[key] = st.secrets[key]":
\* st is [env, raised]; after an exception nothing more is executed
CopyKey(st, secrets, k) ==
    IF st.raised \/ secrets[k] = "absent" THEN st
    ELSE IF secrets[k] = "other" THEN [st EXCEPT !.raised = TRUE]
    ELSE [st EXCEPT !.env = @ \cup {k}]

\* mutant: the test for GOOGLE_API_KEY is left out
setup_environmentNoCheck(env, secrets, readable) ==
    IF ~readable THEN [ret |-> FALSE, env |-> env]
    ELSE LET s0 == [env |-> env, raised |-> FALSE]
             s1 == CopyKey(s0, secrets, "GOOGLE_API_KEY")
             s2 == CopyKey(s1, secrets, "COMPOSIO_API_KEY")
             s3 == CopyKey(s2, secrets, "TAVILY_API_KEY")
         IN  [ret |-> ~s3.raised, env |-> s3.env]

\* readable = FALSE: reading st.secrets raises (no secrets file)
setup_environment(env, secrets, readable) ==
    IF ~readable THEN [ret |-> FALSE, env |-> env]
    ELSE IF secrets["GOOGLE_API_KEY"] = "absent" THEN [ret |-> FALSE, env |-> env]
    ELSE LET s0 == [env |-> env, raised |-> FALSE]
             s1 == CopyKey(s0, secrets, "GOOGLE_API_KEY")
             s2 == CopyKey(s1, secrets, "COMPOSIO_API_KEY")
             s3 == CopyKey(s2, secrets, "TAVILY_API_KEY")
         IN  [ret |-> ~s3.raised, env |-> s3.env]

(***************************************************************************)
(* initialize_composio_tools, TravelAgent.__init__, initialize_agents      *)
(***************************************************************************)
\* mutant: the itinerary step and the budget step change places
AgentOrderSwapped ==
    <<"researcher", "budget_expert", "planner", "local_expert", "summarizer">>

AgentOrder == <<"researcher", "planner", "budget_expert", "local_expert", "summarizer">>
AgentNames == {AgentOrder[i] : i \in DOMAIN AgentOrder}
ResultVars == <<"flights_info", "itinerary", "budget_plan", "local_tips", "summarized_plan">>

\* what toolset.get_tools returns: a list of tools, or it raises
NoTools == <<>>
Tavily == <<"TAVILY_SEARCH">>
ToolAnswers ==
    {[raised |-> TRUE, tools |-> NoTools],
     [raised |-> FALSE, tools |-> NoTools],
     [raised |-> FALSE, tools |-> Tavily]}

\* first: the answer of the first get_tools; second: the answer of add_tool
\* followed by the second get_tools
initialize_composio_tools(first, second) ==
    IF first.raised THEN NoTools
    ELSE IF first.tools # NoTools THEN first.tools
    ELSE IF second.raised THEN NoTools
    ELSE second.tools

\* TravelAgent.__init__: the fields run() reads
TravelAgent(tools, use_agent) ==
    [tools |-> tools, use_agent |-> use_agent,
     agent |-> IF use_agent /\ tools # NoTools THEN "executor" ELSE "None"]

\* None, and any value "not agents" takes for falsy
None == [a \in {} |-> 0]

\* llmOK: ChatGoogleGenerativeAI(...) does not raise
\* execOK: initialize_agent(...) in TravelAgent.__init__ does not raise
initialize_agents(llmOK, first, second, execOK) ==
    LET tools == initialize_composio_tools(first, second) IN
    IF ~llmOK THEN None
    ELSE IF tools # NoTools /\ ~execOK THEN None
    ELSE [a \in AgentNames |->
            IF a = "summarizer" THEN TravelAgent(NoTools, FALSE)
            ELSE TravelAgent(tools, TRUE)]

Falsy(agents) == DOMAIN agents = {}

(***************************************************************************)
(* The initial state: a fresh server process, no script run yet            *)
(***************************************************************************)
EmptyForm == [w \in {} |-> 0]

Init ==
    /\ pc = [h \in Hist |-> "idle"]
    /\ environ = [h \in Hist |-> {}]
    /\ cache = [h \in Hist |-> {}]
    /\ buttonShown = [h \in Hist |-> FALSE]
    /\ submitted = [h \in Hist |-> FALSE]
    /\ secretsRead = [h \in Hist |-> NoSecrets]
    /\ setupRet = [h \in Hist |-> FALSE]
    /\ initCalled = [h \in Hist |-> FALSE]
    /\ form = [h \in Hist |-> EmptyForm]
    /\ pressed = [h \in Hist |-> FALSE]
    /\ step = [h \in Hist |-> 0]
    /\ inflight = [h \in Hist |-> {}]
    /\ calls = [h \in Hist |-> <<>>]
    /\ results = [h \in Hist |-> <<>>]
    /\ screen = [h \in Hist |-> <<>>]
    /\ progress = [h \in Hist |-> "absent"]
    /\ status = [h \in Hist |-> ""]
    /\ download = [h \in Hist |-> <<>>]

(***************************************************************************)
(* The form and the prompts (main, lines 351-476)                          *)
(***************************************************************************)
TextWidgets == {"origin", "budget", "destination", "interests"}
DateWidgets == {"start_date", "end_date"}

\* timedelta(days=5): the least end date the widget offers
MinEnd == 5

\* the days tried for the start date (min_value: today, day 0): today, and
\* the days from the eve of the least end date on
StartDays == {0} \cup (MinEnd - 1)..MaxAhead

\* the values the six input widgets can return
Forms ==
    [origin : Strings, start_date : StartDays, budget : Strings,
     destination : Strings, end_date : MinEnd..MaxAhead, interests : Strings]

\* bool(value) of a widget value: a str is falsy when empty, a date never
Truthy(w, v) == IF w \in DateWidgets THEN TRUE ELSE v # ""

\* mutant: the guard forgets the interests field
GuardListFive == <<"origin", "destination", "start_date", "end_date", "budget">>

\* all([origin, destination, start_date, end_date, budget, interests])
GuardList == <<"origin", "destination", "start_date", "end_date", "budget", "interests">>
AllFilled(f) == \A i \in DOMAIN GuardList : Truthy(GuardList[i], f[GuardList[i]])

\* the f-strings, as the values they interpolate in the order they appear
research_query(f) ==
    <<"research_query", f.origin, f.destination, f.origin, f.destination,
      f.start_date, f.end_date, f.destination, f.origin, f.destination, f.start_date>>
itinerary_query(f) ==
    <<"itinerary_query", f.destination, f.start_date, f.end_date, f.destination,
      f.interests, f.start_date, f.destination>>
budget_query(f) ==
    <<"budget_query", f.destination, f.start_date, f.end_date, f.destination,
      f.start_date, f.destination, f.destination, f.interests, f.budget>>
local_query(f) ==
    <<"local_query", f.destination, f.destination, f.start_date, f.end_date,
      f.destination, f.interests, f.destination>>
\* mutant: the budget section repeats the itinerary
summary_promptDup(res) ==
    <<"summary_prompt", res[1], res[2], res[2], res[4]>>

\* res: the locals bound so far (flights_info, itinerary, budget_plan, local_tips)
summary_prompt(res) ==
    <<"summary_prompt", res[1], res[2], res[3], res[4]>>

\* the prompt main() passes to run() at step k
PromptOf(k, f, res) ==
    CASE k = 1 -> research_query(f)
      [] k = 2 -> itinerary_query(f)
      [] k = 3 -> budget_query(f)
      [] k = 4 -> local_query(f)
      [] k = 5 -> summary_prompt(res)

StatusTexts == <<"researching", "itinerary", "budget", "local", "summary">>
ProgressTags == <<"p20", "p40", "p60", "p80", "p100">>

(***************************************************************************)
(* TravelAgent.run (lines 172-208)                                         *)
(***************************************************************************)
\* "if self.use_agent and self.agent": the executor path or the direct LLM call
PathOf(ag) == IF ag.use_agent /\ ag.agent # "None" THEN "tools" ELSE "llm"

\* mutant: the reinitialisation leaves the agent without its executor
ReinitializedLost(ag) == [ag EXCEPT !.agent = "None"]

\* self.agent = initialize_agent(...): the field after the reinitialisation
Reinitialized(ag) == [ag EXCEPT !.agent = "executor"]

(***************************************************************************)
(* main(): one action per step of the script run.  S is the set of         *)
(* histories that take the step; new is the new value for each of them.    *)
(***************************************************************************)
Upd(v, S, new) == [h \in Hist |-> IF h \in S THEN new[h] ELSE v[h]]
At(S, label) == \A h \in S : pc[h] = label
Goto(S, label) == pc' = Upd(pc, S, [h \in S |-> label])
Agents(h) == CHOOSE v \in cache[h] : TRUE
Put(S, tags) == screen' = Upd(screen, S, [h \in S |-> screen[h] \o tags[h]])

\* a rerun starts (page load, widget change or button press): lines 302-305
RunStart(S) ==
    /\ At(S, "idle")
    /\ Goto(S, "setup")
    /\ Put(S, [h \in S |-> <<"header">>])
    /\ UNCHANGED <<persist, setupv, formv, tryv, progress, status, download>>

\* the call of setup_environment() in line 308
SetupEnvironment(S, secrets, readable) ==
    LET r == [h \in S |-> setup_environment(environ[h], secrets, readable)] IN
    /\ At(S, "setup")
    /\ Goto(S, "after_setup")
    /\ environ' = Upd(environ, S, [h \in S |-> r[h].env])
    /\ secretsRead' = Upd(secretsRead, S, [h \in S |-> secrets])
    /\ setupRet' = Upd(setupRet, S, [h \in S |-> r[h].ret])
    /\ Put(S, [h \in S |-> IF r[h].ret THEN <<>> ELSE <<"err_setup">>])
    /\ UNCHANGED <<cache, buttonShown, submitted, initCalled, formv, tryv,
                   progress, status, download>>

\* "if not setup_environment(): return" (lines 308-309), then the sidebar
AfterSetup(S) ==
    /\ At(S, "after_setup")
    /\ pc' = Upd(pc, S, [h \in S |-> IF setupRet[h] THEN "init" ELSE "done"])
    /\ buttonShown' = Upd(buttonShown, S,
                          [h \in S |-> IF setupRet[h] THEN buttonShown[h] ELSE FALSE])
    /\ secretsRead' = Upd(secretsRead, S, [h \in S |-> NoSecrets])
    /\ UNCHANGED <<environ, cache, submitted, setupRet, initCalled, formv, tryv, page>>

\* after "agents = initialize_agents()": "if not agents: error, return" (344-346)
AfterInit(S, agents) ==
    /\ pc' = Upd(pc, S, [h \in S |-> IF Falsy(agents[h]) THEN "done" ELSE "widgets"])
    /\ buttonShown' = Upd(buttonShown, S,
                          [h \in S |-> IF Falsy(agents[h]) THEN FALSE ELSE buttonShown[h]])
    /\ initCalled' = Upd(initCalled, S, [h \in S |-> TRUE])

\* line 342, nothing cached yet: the body of initialize_agents runs and its
\* return value is cached, None included
InitializeAgentsMiss(S, llmOK, first, second, execOK) ==
    LET agents == [h \in S |-> initialize_agents(llmOK, first, second, execOK)] IN
    /\ At(S, "init")
    /\ \A h \in S : cache[h] = {}
    /\ cache' = Upd(cache, S, [h \in S |-> {agents[h]}])
    /\ AfterInit(S, agents)
    /\ Put(S, [h \in S |->
                 IF Falsy(agents[h]) THEN <<"err_initializing", "err_failed_init">>
                 ELSE IF agents[h]["researcher"].tools = NoTools THEN <<"warn_no_tools">>
                 ELSE <<>>])
    /\ UNCHANGED <<environ, submitted, secretsRead, setupRet, formv, tryv,
                   progress, status, download>>

\* line 342, cached: the cached value is returned, the body does not run
InitializeAgentsHit(S) ==
    /\ At(S, "init")
    /\ \A h \in S : cache[h] # {}
    /\ AfterInit(S, [h \in S |-> Agents(h)])
    /\ Put(S, [h \in S |-> IF Falsy(Agents(h)) THEN <<"err_failed_init">> ELSE <<>>])
    /\ UNCHANGED <<environ, cache, submitted, secretsRead, setupRet, formv, tryv,
                   progress, status, download>>

\* the six input widgets return their values (lines 351-361)
ReadWidgets(S, f) ==
    /\ At(S, "widgets")
    /\ Goto(S, "validate")
    /\ form' = Upd(form, S, [h \in S |-> f])
    /\ UNCHANGED <<persist, setupv, pressed, tryv, page>>

\* mutant: equal dates pass
DatesInvalidStrict(f) == f.start_date > f.end_date

\* "if start_date >= end_date: error, return" (lines 364-366)
DatesInvalid(f) == f.start_date >= f.end_date

Validate(S) ==
    /\ At(S, "validate")
    /\ pc' = Upd(pc, S, [h \in S |-> IF DatesInvalid(form[h]) THEN "done" ELSE "button"])
    /\ buttonShown' = Upd(buttonShown, S,
                          [h \in S |-> IF DatesInvalid(form[h]) THEN FALSE
                                       ELSE buttonShown[h]])
    /\ Put(S, [h \in S |-> IF DatesInvalid(form[h]) THEN <<"err_dates">> ELSE <<>>])
    /\ UNCHANGED <<environ, cache, submitted, setupv, formv, tryv,
                   progress, status, download>>

\* st.button(...) in line 369: it returns True only in the rerun a click on
\* the button caused, so only when the page showed the button
Button(S, b) ==
    /\ At(S, "button")
    /\ b => \A h \in S : buttonShown[h]
    /\ pressed' = Upd(pressed, S, [h \in S |-> b])
    /\ buttonShown' = Upd(buttonShown, S, [h \in S |-> TRUE])
    /\ Goto(S, IF b THEN "guard" ELSE "footer")
    /\ UNCHANGED <<environ, cache, submitted, setupv, form, tryv, page>>

\* mutant: the progress bar is created before the guard
CheckFieldsBarFirst(S) ==
    /\ At(S, "guard")
    /\ pc' = Upd(pc, S, [h \in S |-> IF AllFilled(form[h]) THEN "try" ELSE "done"])
    /\ progress' = Upd(progress, S, [h \in S |-> "p0"])
    /\ step' = Upd(step, S, [h \in S |-> IF AllFilled(form[h]) THEN 1 ELSE step[h]])
    /\ Put(S, [h \in S |-> IF AllFilled(form[h]) THEN <<>> ELSE <<"err_fields">>])
    /\ UNCHANGED <<persist, setupv, formv, inflight, calls, results, status, download>>

\* "if not all([...]): error, return", else the progress bar, the status
\* placeholder and the results container (lines 370-379)
CheckFields(S) ==
    /\ At(S, "guard")
    /\ pc' = Upd(pc, S, [h \in S |-> IF AllFilled(form[h]) THEN "try" ELSE "done"])
    /\ progress' = Upd(progress, S,
                       [h \in S |-> IF AllFilled(form[h]) THEN "p0" ELSE progress[h]])
    /\ step' = Upd(step, S, [h \in S |-> IF AllFilled(form[h]) THEN 1 ELSE step[h]])
    /\ Put(S, [h \in S |-> IF AllFilled(form[h]) THEN <<>> ELSE <<"err_fields">>])
    /\ UNCHANGED <<persist, setupv, formv, inflight, calls, results, status, download>>

\* "except Exception as e" (lines 498-500): the error box and the hint
ExceptTags == <<"err_plan", "info_keys">>
\* mutant: the handler goes back to the failed step
ExceptRetry == "try"
ExceptGoto == "footer"

\* run() raises before its external call: initialize_agent(...) in run()
\* raised (reinitOK = FALSE) on the executor path
RaisesEarly(h, reinitOK) ==
    PathOf(Agents(h)[AgentOrder[step[h]]]) = "tools" /\ ~reinitOK

\* step k of the try block up to the call of agents[...].run(query), and
\* run() up to its external call: the status text, the progress, the query,
\* the choice of the path and the reinitialisation of the executor
AgentRun(S, reinitOK) ==
    LET a(h) == AgentOrder[step[h]]
        path(h) == PathOf(Agents(h)[a(h)])
        q(h) == PromptOf(step[h], form[h], results[h])
    IN
    /\ At(S, "try")
    /\ status' = Upd(status, S, [h \in S |-> StatusTexts[step[h]]])
    /\ progress' = Upd(progress, S, [h \in S |-> ProgressTags[step[h]]])
    /\ calls' = Upd(calls, S, [h \in S |->
                 Append(calls[h], [agent |-> a(h), prompt |-> q(h), path |-> path(h)])])
    /\ pc' = Upd(pc, S, [h \in S |->
                 IF RaisesEarly(h, reinitOK) THEN ExceptGoto ELSE "running"])
    /\ Put(S, [h \in S |-> IF RaisesEarly(h, reinitOK) THEN ExceptTags ELSE <<>>])
    /\ cache' = Upd(cache, S, [h \in S |->
                 IF path(h) = "tools" /\ reinitOK
                   THEN {[Agents(h) EXCEPT ![a(h)] = Reinitialized(@)]}
                   ELSE cache[h]])
    /\ inflight' = Upd(inflight, S, [h \in S |->
                 IF RaisesEarly(h, reinitOK) THEN inflight[h]
                 ELSE inflight[h] \cup {a(h)}])
    /\ UNCHANGED <<environ, buttonShown, submitted, setupv, formv, step, results, download>>

\* the external call returns text r: run() returns it, main() binds it to
\* the step's local and shows it (steps 1-4), and goes on to the next step
AgentReturn(S, r) ==
    LET last(h) == step[h] = Len(AgentOrder) IN
    /\ At(S, "running")
    /\ inflight' = Upd(inflight, S, [h \in S |-> inflight[h] \ {AgentOrder[step[h]]}])
    /\ results' = Upd(results, S, [h \in S |-> Append(results[h], r)])
    /\ step' = Upd(step, S, [h \in S |-> IF last(h) THEN step[h] ELSE step[h] + 1])
    /\ pc' = Upd(pc, S, [h \in S |-> IF last(h) THEN "show" ELSE "try"])
    /\ Put(S, [h \in S |-> IF last(h) THEN <<>> ELSE <<"agent_response">>])
    /\ UNCHANGED <<persist, setupv, formv, calls, progress, status, download>>

\* the external call raises: the exception leaves run() and the try block
AgentRaise(S) ==
    /\ At(S, "running")
    /\ inflight' = Upd(inflight, S, [h \in S |-> inflight[h] \ {AgentOrder[step[h]]}])
    /\ Goto(S, ExceptGoto)
    /\ Put(S, [h \in S |-> ExceptTags])
    /\ UNCHANGED <<persist, setupv, formv, step, calls, results, progress, status,
                   download>>

\* mutant: the download carries the research text
ShowPlanFirst(S) ==
    /\ At(S, "show")
    /\ Goto(S, "sleep")
    /\ Put(S, [h \in S |-> <<"final_plan", "download_button">>])
    /\ download' = Upd(download, S, [h \in S |-> <<results[h][1]>>])
    /\ status' = Upd(status, S, [h \in S |-> "success"])
    /\ UNCHANGED <<persist, setupv, formv, tryv, progress>>

\* the final plan, the download button and the success status (lines 482-493)
ShowPlan(S) ==
    /\ At(S, "show")
    /\ Goto(S, "sleep")
    /\ Put(S, [h \in S |-> <<"final_plan", "download_button">>])
    /\ download' = Upd(download, S, [h \in S |-> <<results[h][Len(ResultVars)]>>])
    /\ status' = Upd(status, S, [h \in S |-> "success"])
    /\ UNCHANGED <<persist, setupv, formv, tryv, progress>>

\* after time.sleep(2): status_text.empty(), progress_bar.empty() (494-496)
ClearStatus(S) ==
    /\ At(S, "sleep")
    /\ Goto(S, "footer")
    /\ status' = Upd(status, S, [h \in S |-> ""])
    /\ progress' = Upd(progress, S, [h \in S |-> "emptied"])
    /\ UNCHANGED <<persist, setupv, formv, tryv, screen, download>>

\* the footer (lines 503-504); main() returns
Footer(S) ==
    /\ At(S, "footer")
    /\ Goto(S, "done")
    /\ Put(S, [h \in S |-> <<"footer">>])
    /\ UNCHANGED <<persist, setupv, formv, tryv, progress, status, download>>

\* main() has returned: the run's locals are gone, and the next run draws
\* the page anew
RunEnd(S) ==
    /\ At(S, "done")
    /\ Goto(S, "idle")
    /\ submitted' = Upd(submitted, S, [h \in S |-> submitted[h] \/ calls[h] # <<>>])
    /\ secretsRead' = Upd(secretsRead, S, [h \in S |-> NoSecrets])
    /\ setupRet' = Upd(setupRet, S, [h \in S |-> FALSE])
    /\ initCalled' = Upd(initCalled, S, [h \in S |-> FALSE])
    /\ form' = Upd(form, S, [h \in S |-> EmptyForm])
    /\ pressed' = Upd(pressed, S, [h \in S |-> FALSE])
    /\ step' = Upd(step, S, [h \in S |-> 0])
    /\ inflight' = Upd(inflight, S, [h \in S |-> {}])
    /\ calls' = Upd(calls, S, [h \in S |-> <<>>])
    /\ results' = Upd(results, S, [h \in S |-> <<>>])
    /\ screen' = Upd(screen, S, [h \in S |-> <<>>])
    /\ progress' = Upd(progress, S, [h \in S |-> "absent"])
    /\ status' = Upd(status, S, [h \in S |-> ""])
    /\ download' = Upd(download, S, [h \in S |-> <<>>])
    /\ UNCHANGED <<environ, cache, buttonShown>>

(***************************************************************************)
(* Spec: one history, every input                                          *)
(***************************************************************************)
\* one step of the histories S, its inputs drawn from the given sets
Run(S, secretFiles, readables, forms, texts) ==
    \/ RunStart(S)
    \/ \E secrets \in secretFiles, readable \in readables :
          SetupEnvironment(S, secrets, readable)
    \/ AfterSetup(S)
    \/ \E llmOK \in BOOLEAN, first \in ToolAnswers, second \in ToolAnswers,
          execOK \in BOOLEAN :
          InitializeAgentsMiss(S, llmOK, first, second, execOK)
    \/ InitializeAgentsHit(S)
    \/ \E f \in forms : ReadWidgets(S, f)
    \/ Validate(S)
    \/ \E b \in BOOLEAN : Button(S, b)
    \/ CheckFields(S)
    \/ \E reinitOK \in BOOLEAN : AgentRun(S, reinitOK)
    \/ \E r \in texts : AgentReturn(S, r)
    \/ AgentRaise(S)
    \/ ShowPlan(S)
    \/ ClearStatus(S)
    \/ Footer(S)
    \/ RunEnd(S)

Next == Run(Solo, SecretFiles, BOOLEAN, Forms, Texts)

Spec == Init /\ [][Next]_vars

(***************************************************************************)
(* SpecPair: two histories.  They are independent, so only the aligned     *)
(* interleavings are explored: a history runs alone while the other is     *)
(* between runs, and two histories that start a run together step          *)
(* together, on the same inputs and the same external answers, for as long *)
(* as they are at the same place of main().  The secrets file holds the    *)
(* three keys, so that every run gets past setup_environment; the forms    *)
(* are two filled-in forms and the agents return one of two texts.         *)
(***************************************************************************)
PairSecrets == {[k \in Keys |-> "str"]}
PairForms ==
    {f \in Forms : /\ \A w \in TextWidgets : f[w] = "x"
                   /\ f.end_date = MinEnd
                   /\ f.start_date \in {MinEnd - 1, MinEnd}}
PairTexts == {1, 2}

\* h steps alone: the other history is between runs, or the two started a
\* run together and are no longer at the same place
Alone(h) ==
    \A g \in Hist \ {h} :
        \/ pc[g] = "idle"
        \/ pc[h] # "idle" /\ pc[g] # pc[h]
        \/ pc[h] = "init" /\ pc[g] = "init" /\ (cache[g] = {}) # (cache[h] = {})

NextPair ==
    \/ \E h \in Hist : Alone(h) /\ Run({h}, PairSecrets, {TRUE}, PairForms, PairTexts)
    \/ Run(Hist, PairSecrets, {TRUE}, PairForms, PairTexts)

SpecPair == Init /\ [][NextPair]_vars

(***************************************************************************)
(* The claims                                                              *)
(***************************************************************************)
Count(seq, tag) == Cardinality({i \in DOMAIN seq : seq[i] = tag})
LastOf(seq) == seq[Len(seq)]
FourTexts == {"origin", "destination", "budget", "interests"}

\* C1: within one script run the agents are run in the order researcher,
\* planner, budget_expert, local_expert, summarizer, each at most once; a run
\* is started only after every earlier run has returned, and at most one run
\* is in progress at any time.
C1_Expected == <<"researcher", "planner", "budget_expert", "local_expert", "summarizer">>
C1_Sequential ==
    \A h \in Hist :
        LET n == Len(calls[h]) IN
        /\ n <= 5
        /\ \A i \in 1..n : calls[h][i].agent = C1_Expected[i]
        /\ Cardinality(inflight[h]) <= 1
        /\ inflight[h] \subseteq (IF n = 0 THEN {} ELSE {calls[h][n].agent})
        /\ Len(results[h]) >= n - 1
        /\ inflight[h] # {} => Len(results[h]) = n - 1

C1_Witness ==
    \E h \in Hist : Len(calls[h]) = 5 /\ inflight[h] = {"summarizer"}

\* a run() of this script run was called and ended without returning
Raised(h) == Len(calls[h]) > Len(results[h]) /\ inflight[h] = {}

\* C2: when a step's run raises, the page shows exactly one error message
\* for it, the failed step is the last one called (no later step, no second
\* run of any agent), there is no final plan, no download and no success
\* status, and main() runs on to its footer and returns.
C2_ExceptionSurfaced ==
    \A h \in Hist :
        Raised(h) =>
            /\ Count(screen[h], "err_plan") = 1
            /\ pc[h] \in {"footer", "done"}
            /\ pc[h] = "done" => LastOf(screen[h]) = "footer"
            /\ step[h] = Len(calls[h])
            /\ \A i, j \in DOMAIN calls[h] :
                  i # j => calls[h][i].agent # calls[h][j].agent
            /\ download[h] = <<>>
            /\ Count(screen[h], "final_plan") = 0
            /\ Count(screen[h], "download_button") = 0
            /\ status[h] # "success"

C2_Witness ==
    \E h \in Hist : Raised(h) /\ pc[h] = "done" /\ Len(calls[h]) = 3

\* C3: the summarizer is run only as the fifth call, after the researcher,
\* planner, budget_expert and local_expert runs of this script run have
\* returned, its prompt holds the four texts they returned, and a script run
\* that reaches the final plan has run it exactly once.
C3_Summarizer ==
    \A h \in Hist :
        /\ \A i \in DOMAIN calls[h] :
              calls[h][i].agent = "summarizer" =>
                  /\ i = 5
                  /\ \A j \in 1..4 : calls[h][j].agent = C1_Expected[j]
                  /\ Len(results[h]) >= 4
                  /\ calls[h][i].prompt =
                        <<"summary_prompt", results[h][1], results[h][2],
                          results[h][3], results[h][4]>>
        /\ (pc[h] \in {"show", "sleep"} \/ download[h] # <<>>) =>
              Cardinality({i \in DOMAIN calls[h] : calls[h][i].agent = "summarizer"}) = 1

C3_Witness ==
    \E h \in Hist :
        /\ pc[h] = "show"
        /\ results[h][1] # results[h][2]
        /\ results[h][2] # results[h][3]
        /\ results[h][3] # results[h][4]

\* C4: the download button and the success status exist only when all five
\* runs of this script run have returned and none raised, and the data of
\* the download is the text the summarizer run returned.
C4_Download ==
    \A h \in Hist :
        (download[h] # <<>> \/ status[h] = "success") =>
            /\ Len(calls[h]) = 5
            /\ Len(results[h]) = 5
            /\ inflight[h] = {}
            /\ Count(screen[h], "err_plan") = 0
            /\ download[h] = <<results[h][5]>>

C4_Witness ==
    \E h \in Hist :
        /\ status[h] = "success"
        /\ download[h] # <<>>
        /\ \A i \in 1..4 : results[h][i] # results[h][5]

\* C5 as stated: the form has five input fields.
C5_FiveFields ==
    \A h \in Hist : form[h] # EmptyForm => Cardinality(DOMAIN form[h]) = 5

\* C5, amended: the form has six input widgets (origin, start date, budget,
\* destination, end date, interests); the submit guard tests the six values,
\* and as a date is never falsy, the try block is entered exactly when the
\* four text fields are non-empty.
C5_SixFields ==
    \A h \in Hist :
        /\ form[h] # EmptyForm =>
              DOMAIN form[h] = {"origin", "start_date", "budget",
                                "destination", "end_date", "interests"}
        /\ pc[h] \in {"try", "running", "show", "sleep"} =>
              \A w \in FourTexts : form[h][w] # ""
        /\ (pressed[h] /\ pc[h] = "done" /\ \A w \in FourTexts : form[h][w] # "") =>
              Count(screen[h], "err_fields") = 0

C5_Witness ==
    \E h \in Hist : pc[h] = "try" /\ Cardinality(DOMAIN form[h]) = 6

\* C7: with start_date >= end_date the script run shows the date error and
\* returns before st.button: the button is not drawn, it does not return
\* True, and no agent is run.
C7_DatesRejected ==
    \A h \in Hist :
        (form[h] # EmptyForm /\ form[h].start_date >= form[h].end_date) =>
            /\ pc[h] \in {"validate", "done"}
            /\ ~pressed[h]
            /\ calls[h] = <<>>
            /\ inflight[h] = {}
            /\ pc[h] = "done" => LastOf(screen[h]) = "err_dates" /\ ~buttonShown[h]

C7_Witness ==
    \E h \in Hist :
        /\ pc[h] = "done"
        /\ form[h] # EmptyForm
        /\ form[h].start_date = form[h].end_date

\* C8: a press of the button with origin, destination, budget or interests
\* empty shows the fill-in error and returns with no agent run and no
\* progress bar; an agent is run only with the four fields non-empty and
\* start_date < end_date.
C8_FieldsRejected ==
    \A h \in Hist :
        /\ Count(screen[h], "err_fields") > 0 =>
              /\ pc[h] = "done"
              /\ pressed[h]
              /\ calls[h] = <<>>
              /\ results[h] = <<>>
              /\ progress[h] = "absent"
        /\ (pressed[h] /\ pc[h] # "guard" /\ \E w \in FourTexts : form[h][w] = "") =>
              Count(screen[h], "err_fields") = 1
        /\ calls[h] # <<>> =>
              /\ \A w \in FourTexts : form[h][w] # ""
              /\ form[h].start_date < form[h].end_date

C8_Witness ==
    \E h \in Hist :
        /\ Count(screen[h], "err_fields") = 1
        /\ form[h].origin # ""
        /\ form[h].interests = ""

\* C9: setup_environment returns True only with GOOGLE_API_KEY in the
\* secrets; without it, it returns False and writes no environment variable,
\* and main() returns without calling initialize_agents, so the run creates
\* and runs no agent.  When it returns True, GOOGLE_API_KEY is in the
\* environment and the keys it wrote are the keys present in the secrets.
C9_Setup ==
    [][\A h \in Hist :
        /\ (pc[h] = "setup" /\ pc'[h] = "after_setup") =>
              LET present == {k \in Keys : secretsRead'[h][k] # "absent"} IN
              /\ setupRet'[h] => "GOOGLE_API_KEY" \in present
              /\ "GOOGLE_API_KEY" \notin present =>
                    ~setupRet'[h] /\ environ'[h] = environ[h]
              /\ setupRet'[h] =>
                    /\ "GOOGLE_API_KEY" \in environ'[h]
                    /\ environ'[h] = environ[h] \cup present
        /\ (pc[h] = "after_setup" /\ ~setupRet[h]) => pc'[h] = "done"
        /\ (pc'[h] = "done" /\ ~setupRet'[h]) =>
              /\ ~initCalled'[h]
              /\ calls'[h] = <<>>
              /\ cache'[h] = cache[h]
      ]_vars

C9_Witness ==
    \E h \in Hist :
        /\ pc[h] = "after_setup"
        /\ setupRet[h]
        /\ secretsRead[h]["COMPOSIO_API_KEY"] = "str"
        /\ secretsRead[h]["TAVILY_API_KEY"] = "absent"
        /\ environ[h] = {"GOOGLE_API_KEY", "COMPOSIO_API_KEY"}

\* the calls both histories have made in their current script runs
Common == 1..(IF Len(calls[1]) <= Len(calls[2]) THEN Len(calls[1]) ELSE Len(calls[2]))

\* up to call i the two script runs had the same form values and got the
\* same texts back
SameInputs(i) ==
    /\ form[1] = form[2]
    /\ \A j \in 1..(i - 1) : results[1][j] = results[2][j]

SameCall(i) ==
    /\ calls[1][i].prompt = calls[2][i].prompt
    /\ calls[1][i].path = calls[2][i].path

\* the two histories got the same tool list when initialize_agents ran
SameInit ==
    \A a \in AgentNames :
        /\ Agents(1)[a].tools = Agents(2)[a].tools
        /\ Agents(1)[a].use_agent = Agents(2)[a].use_agent

\* C6 as stated: the prompt and the path of a call depend only on the form
\* values and the external answers of the script run it belongs to.
C6_NoStateSurvives ==
    \A i \in Common : SameInputs(i) => SameCall(i)

\* C6, amended: the agents live in the resource cache for the life of the
\* process; the prompt of a call depends only on the form values and the
\* answers of its script run, and the path on these and on the tool list the
\* agents were built with when initialize_agents first ran. Earlier submits
\* change neither.
C6_DependsOnInit ==
    \A i \in Common : (SameInputs(i) /\ SameInit) => SameCall(i)

C6_Witness ==
    /\ submitted[1] /\ ~submitted[2]
    /\ Len(calls[1]) = 5 /\ Len(calls[2]) = 5
    /\ SameInputs(5) /\ SameInit
    /\ calls[1][1].path = "tools" /\ calls[2][5].path = "llm"

====
